---- MODULE Spec2Model ----
(***************************************************************************)
(* State-machine model of the QmanAssist ingestion pipeline                *)
(* (src/src/ingestion/pipeline.py), its vector store wrapper               *)
(* (src/src/core/vector_store.py) and the hybrid retriever                 *)
(* (src/src/rag/retriever.py).                                             *)
(*                                                                         *)
(* The specifications share the variables:                                 *)
(*   SpecRetry     _add_documents_with_retry called directly on a batch    *)
(*   Spec          ingest_directory runs (sequential and parallel mode)    *)
(*   SpecRetrieve  DocumentRetriever.retrieve on a small index             *)
(*   SpecDistances retrieve on an index with any distances                 *)
(*   SpecIds       enrich_document and add_documents identifiers           *)
(*   SpecChunk     the chunking stage                                      *)
(*   SpecReindex   reindex_file                                            *)
(*   SpecAgent     a run of the IntelligentAgent graph                     *)
(*   SpecClean     BaseDocumentLoader._clean_text                          *)
(*   SpecSession   SessionManager and the login pages                      *)
(***************************************************************************)
EXTENDS Integers, Sequences, FiniteSets, TLC

VARIABLES
  \* ---- vector store (ChromaDB collection) and its environment
  store,            \* set of record ids held by the collection
  faults,           \* number of store failures the environment has injected
  \* ---- one invocation of _add_documents_with_retry (recursion as a work stack)
  stack,            \* pending batches, innermost call first
  retIds,           \* ids returned so far (ids_1 + ids_2 ...)
  retry,            \* "idle" | "running" | "returned" | "raised"
  calls,            \* store calls made by this invocation
  batch,            \* the argument of a direct call (SpecRetry)
  \* ---- IngestionPipeline
  files,            \* per file: what loading it gives, and its enriched chunks
  skip_existing,    \* constructor flag
  workers,          \* constructor value / settings.ingestion_workers
  pcMain,           \* position of the calling (coordinating) thread
  runNo,            \* ingest_directory calls started so far
  stats,            \* statistics record of the current run
  file_path,        \* the file the coordinating loop is handling (0: none yet)
  enriched,         \* ingest_file: enriched_docs of the current file
  fres,             \* per file: status returned by ingest_file in this run
  wstate,           \* parallel mode: per file future state
  wresult,          \* parallel mode: per file result of _process_single_file
  all_docs_to_add,  \* parallel mode: the accumulated batch
  flushing,         \* threads currently inside a flush to the store
  counted,          \* per file: the statistics counters incremented for it
  startCount,       \* record count of the store when the current run started
  \* ---- DocumentRetriever
  recs,             \* per record: occurrences of each code, distance, doc_type
  similarity_threshold, \* self.similarity_threshold (hundredths)
  thrArg,           \* constructor argument similarity_threshold (None or value)
  thrSetting,       \* settings.similarity_threshold (hundredths)
  rtv,              \* the last retrieve call: inputs, outcome and result
  \* ---- MetadataEnricher / VectorStore.add_documents identifiers
  enrichLog,        \* the enrich_document calls made: document, time, doc_id
  added,            \* the documents handed to add_documents, with their ids
  now,              \* datetime.now(), read by enrich_document and the session
  \* ---- the chunking stage (TableChunker, then SemanticChunker)
  units,            \* the loaded units handed to _chunk_documents
  chunks,           \* the list _chunk_documents returned
  \* ---- reindex_file
  reindex,          \* the reindex_file call: file, records before, result
  \* ---- IntelligentAgent
  agent,            \* AgentState of the run, the nodes run, what run returned
  \* ---- BaseDocumentLoader._clean_text
  rawText,          \* the string handed to _clean_text
  cleaned,          \* what _clean_text returned
  \* ---- SessionManager on Streamlit's session_state
  auth_enabled,     \* settings.auth_enabled
  session_state,    \* the attributes authenticated and authenticated_at
  lastActivity,     \* time of the user's last request in a live session
  authResult        \* the last is_authenticated call and what it returned

storeVars == <<store, faults>>
retryVars == <<stack, retIds, retry, calls, batch>>
ingVars   == <<files, skip_existing, workers, pcMain, runNo, stats, file_path,
               enriched, fres, wstate, wresult, all_docs_to_add, flushing,
               counted, startCount>>
rtvVars   == <<recs, similarity_threshold, thrArg, thrSetting, rtv>>
enrVars   == <<enrichLog, added, now>>
chunkVars == <<units, chunks>>
cleanVars == <<rawText, cleaned>>
sessVars  == <<auth_enabled, session_state, lastActivity, authResult>>
auxVars   == <<enrVars, chunkVars, reindex, agent, cleanVars, sessVars>>
vars      == <<storeVars, retryVars, ingVars, rtvVars, auxVars>>

(***************************************************************************)
(* Bounds of the model                                                     *)
(***************************************************************************)
ChunkSize  == 2    \* settings.chunk_size, in characters
MaxLen     == 3    \* longest content of a loaded unit, in characters
MaxUnits   == 2    \* most units one file is loaded as
MaxText    == 5    \* longest string handed to _clean_text, in characters
MaxTime    == 5    \* the clock stops here, in minutes
session_timeout_minutes == 2   \* settings.session_timeout_minutes (any value > 0)
TokenLimit == 2    \* provider's per-request token budget, in model units
MaxBatch   == 4    \* longest batch handed directly to the retry routine
MaxFaults  == 1    \* store failures the environment may inject
NFiles     == 2    \* files enumerated by list_documents
MaxWorkers == 2    \* largest configured worker count
NRecs      == 3    \* records held by the index when a query is made
MaxK       == 3    \* largest explicit top_k argument of retrieve

None  == "None"
NoArg == 0 - 1     \* a numeric argument left at None
Main == "main"

Files   == 1..NFiles
Runs    == {1, 2}  \* a run over the directory and the re-run that follows it
Weights == 1..(TokenLimit + 1)
Half    == TokenLimit
Big     == TokenLimit + 1

(***************************************************************************)
(* Documents: an id (doc_id) and a token weight                            *)
(***************************************************************************)
Doc(f, i, w) == [id |-> <<f, i>>, w |-> w]

RECURSIVE SumW(_)
SumW(docs) == IF docs = <<>> THEN 0 ELSE Head(docs).w + SumW(Tail(docs))

Ids(docs)   == {docs[i].id : i \in 1..Len(docs)}
IdSeq(docs) == [i \in 1..Len(docs) |-> docs[i].id]

\* documents of file f with the given sequence of weights
DocsOf(f, ws) == [i \in 1..Len(ws) |-> Doc(f, i, ws[i])]

SeqsUpTo(S, n) == UNION {[1..m -> S] : m \in 1..n}

(***************************************************************************)
(* VectorStore.add_documents: what one collection.add call can answer.     *)
(* The embedding request overflows when the batch exceeds the token        *)
(* budget; any call may also fail for another reason (index unavailable).  *)
(***************************************************************************)
ErrOverflow == "max_tokens_per_request"
ErrOther    == "unavailable"
\* the provider's rate limit answer: "Rate limit reached ... Requested n"
ErrRateLimit == "rate_limit"

\* the errors that are not of the overflow class
NonOverflowErrors == {ErrOther, ErrRateLimit}

AddOutcomes(docs) ==
  {IF SumW(docs) > TokenLimit THEN ErrOverflow ELSE "ok"}
    \cup (IF faults < MaxFaults THEN NonOverflowErrors ELSE {})

\* the marker substrings that the text of an error contains: the overflow
\* error reads "Requested n tokens, max m tokens per request"
Mentions(e) ==
  IF e = ErrOverflow THEN {"max_tokens_per_request", "Requested"}
  ELSE IF e = ErrRateLimit THEN {"Requested"}
  ELSE {}

\* pipeline.py:346  the test for a token limit error on the message
IsTokenLimitError(e) ==
  "max_tokens_per_request" \in Mentions(e) \/ "Requested" \in Mentions(e)

(***************************************************************************)
(* _add_documents_with_retry                                               *)
(***************************************************************************)
Mid(n) == n \div 2

FirstHalf(docs) == SubSeq(docs, 1, Mid(Len(docs)))

SecondHalfDropping(docs) == SubSeq(docs, Mid(Len(docs)) + 2, Len(docs))
SecondHalf(docs) == SubSeq(docs, Mid(Len(docs)) + 1, Len(docs))

\* the call itself: an empty batch returns [] at once (pipeline.py:337)
RetryCall(docs) ==
  /\ stack'  = IF docs = <<>> THEN <<>> ELSE <<docs>>
  /\ retIds' = <<>>
  /\ retry'  = IF docs = <<>> THEN "returned" ELSE "running"
  /\ calls'  = 0

\* one store call of the innermost pending invocation, and what follows it
RetryStep ==
  /\ retry = "running"
  /\ stack # <<>>
  /\ LET docs == Head(stack)
         rest == Tail(stack)
     IN  IF docs = <<>>
         THEN /\ stack' = rest
              /\ retry' = IF rest = <<>> THEN "returned" ELSE "running"
              /\ UNCHANGED <<store, faults, retIds, calls>>
         ELSE \E out \in AddOutcomes(docs) :
              /\ calls'  = calls + 1
              /\ faults' = IF out \in NonOverflowErrors THEN faults + 1 ELSE faults
              /\ IF out = "ok"
                 THEN /\ store'  = store \cup Ids(docs)
                      /\ retIds' = retIds \o IdSeq(docs)
                      /\ stack'  = rest
                      /\ retry'  = IF rest = <<>> THEN "returned" ELSE "running"
                 ELSE IF IsTokenLimitError(out) /\ Len(docs) > 1
                 THEN /\ stack'  = <<FirstHalf(docs), SecondHalf(docs)>> \o rest
                      /\ UNCHANGED <<store, retIds, retry>>
                 ELSE \* a single document that overflows, or another error:
                      \* the exception unwinds every pending invocation
                      /\ stack'  = <<>>
                      /\ retIds' = <<>>
                      /\ retry'  = "raised"
                      /\ UNCHANGED store
  /\ UNCHANGED <<batch, ingVars, rtvVars, auxVars>>

\* a direct call on a batch
CallRetry ==
  /\ pcMain = "direct"
  /\ retry = "idle"
  /\ RetryCall(batch)
  /\ UNCHANGED <<storeVars, batch, ingVars, rtvVars, auxVars>>

(***************************************************************************)
(* Files of the directory.  A file either fails at a stage of              *)
(* load -> chunk -> enrich or yields a list of enriched chunks.            *)
(***************************************************************************)
LoadFailures == {"unsupported", "load_error", "no_content"}
Fates        == {"ok", "chunk_error"} \cup LoadFailures

\* chunk lists by token weight: one that fits, one that bisects, and two with
\* a chunk that overflows alone (first, last)
ChunkShapes == {<<1>>, <<Half, Half>>, <<Big, 1>>, <<1, Big>>}

FileChoices(f) ==
  {[fate |-> "ok", docs |-> DocsOf(f, ws)] : ws \in ChunkShapes}
    \cup {[fate |-> x, docs |-> <<>>] : x \in Fates \ {"ok"}}

StatsZero(n) ==
  [total_files |-> n, successful |-> 0, failed |-> 0, skipped |-> 0,
   total_chunks |-> 0]

NoResult == [status |-> "none", documents |-> <<>>]

Bump(st, field) == [st EXCEPT ![field] = @ + 1]

(***************************************************************************)
(* VectorStore.document_exists and IngestionPipeline._filter_existing      *)
(***************************************************************************)
\* fails: collection.get raised; the except clause answers False
DocumentExists(id, fails) == IF fails THEN FALSE ELSE id \in store

\* missed: the ids whose existence check raised
FilterExisting(docs, missed) ==
  SelectSeq(docs, LAMBDA d : ~DocumentExists(d.id, d.id \in missed))

(***************************************************************************)
(* ingest_directory: mode selection (pipeline.py:192)                      *)
(***************************************************************************)
UseParallel(parallel) == parallel /\ workers > 1

IngestDirectory ==
  /\ pcMain \in {"idle", "done"}
  /\ runNo + 1 \in Runs
  /\ \E parallel \in BOOLEAN :
       /\ pcMain' = IF UseParallel(parallel) THEN "par_loop" ELSE "seq_loop"
       /\ wstate' = IF UseParallel(parallel)
                    THEN [f \in Files |-> "submitted"]
                    ELSE [f \in Files |-> "none"]
  /\ runNo' = runNo + 1
  /\ stats' = StatsZero(NFiles)
  /\ file_path' = 0
  /\ enriched' = <<>>
  /\ fres' = [f \in Files |-> "none"]
  /\ wresult' = [f \in Files |-> NoResult]
  /\ all_docs_to_add' = <<>>
  /\ counted' = [f \in Files |-> {}]
  /\ startCount' = Cardinality(store)
  /\ UNCHANGED <<files, skip_existing, workers, flushing>>
  /\ UNCHANGED <<storeVars, retryVars, rtvVars, auxVars>>

(***************************************************************************)
(* _ingest_sequential / ingest_file                                        *)
(***************************************************************************)
\* pipeline.py:225-227  the loop's except clause: log, count, go on
SeqAfterExceptionUncaught == "aborted"
SeqAfterException == "seq_loop"

\* ingest_file steps 1-3 for the next file of the list
SeqLoad ==
  /\ pcMain = "seq_loop"
  /\ file_path < NFiles
  /\ LET f == file_path + 1 IN
     /\ file_path' = f
     /\ IF files[f].fate = "ok"
        THEN /\ enriched' = files[f].docs
             /\ pcMain' = "seq_enriched"
             /\ UNCHANGED <<stats, fres, counted>>
        ELSE \* _load_document returned []  ->  {"status": "failed"};
             \* an exception while chunking is caught by _ingest_sequential
             /\ stats' = Bump(stats, "failed")
             /\ fres' = [fres EXCEPT ![f] =
                           IF files[f].fate \in LoadFailures THEN "failed" ELSE "raised"]
             /\ counted' = [counted EXCEPT ![f] = @ \cup {"failed"}]
             /\ pcMain' = IF files[f].fate \in LoadFailures THEN "seq_loop"
                          ELSE SeqAfterException
             /\ UNCHANGED enriched
  /\ UNCHANGED <<files, skip_existing, workers, runNo, wstate, wresult,
                 all_docs_to_add, flushing, startCount>>
  /\ UNCHANGED <<storeVars, retryVars, rtvVars, auxVars>>

\* ingest_file steps 4-5: filter the chunks already stored, then call the store
SeqFilterStore ==
  /\ pcMain = "seq_enriched"
  /\ LET f == file_path
         present == Ids(enriched) \cap store
     IN \E missed \in SUBSET present :
        /\ Cardinality(missed) <= MaxFaults - faults
        /\ ~skip_existing => missed = {}
        /\ faults' = faults + Cardinality(missed)
        /\ LET docs == IF skip_existing THEN FilterExisting(enriched, missed)
                       ELSE enriched
           IN IF skip_existing /\ docs = <<>>
              THEN /\ stats' = Bump(stats, "skipped")
                   /\ fres' = [fres EXCEPT ![f] = "skipped"]
                   /\ counted' = [counted EXCEPT ![f] = @ \cup {"skipped"}]
                   /\ pcMain' = "seq_loop"
                   /\ enriched' = <<>>
                   /\ UNCHANGED <<retryVars, flushing>>
              ELSE /\ RetryCall(docs)
                   /\ flushing' = flushing \cup {Main}
                   /\ pcMain' = "seq_store"
                   /\ enriched' = docs
                   /\ UNCHANGED <<stats, fres, counted, batch>>
  /\ UNCHANGED <<store, files, skip_existing, workers, runNo, file_path, wstate,
                 wresult, all_docs_to_add, startCount, rtvVars, auxVars>>

\* ingest_file after the store call, and the loop's bookkeeping
SeqFileDone ==
  /\ pcMain = "seq_store"
  /\ retry \in {"returned", "raised"}
  /\ LET f == file_path IN
     IF retry = "returned"
     THEN /\ stats' = [stats EXCEPT !.successful = @ + 1,
                                    !.total_chunks = @ + Len(retIds)]
          /\ fres' = [fres EXCEPT ![f] = "success"]
          /\ counted' = [counted EXCEPT ![f] = @ \cup {"successful"}]
     ELSE /\ stats' = Bump(stats, "failed")
          /\ fres' = [fres EXCEPT ![f] = "failed"]
          /\ counted' = [counted EXCEPT ![f] = @ \cup {"failed"}]
  /\ retry' = "idle"
  /\ retIds' = <<>>
  /\ flushing' = flushing \ {Main}
  /\ enriched' = <<>>
  /\ pcMain' = "seq_loop"
  /\ UNCHANGED <<stack, calls, batch>>
  /\ UNCHANGED <<files, skip_existing, workers, runNo, file_path, wstate,
                 wresult, all_docs_to_add, startCount>>
  /\ UNCHANGED <<storeVars, rtvVars, auxVars>>

SeqReturn ==
  /\ pcMain = "seq_loop"
  /\ file_path = NFiles
  /\ pcMain' = "done"
  /\ UNCHANGED <<files, skip_existing, workers, runNo, stats, file_path, enriched,
                 fres, wstate, wresult, all_docs_to_add, flushing, counted,
                 startCount>>
  /\ UNCHANGED <<storeVars, retryVars, rtvVars, auxVars>>

(***************************************************************************)
(* _ingest_parallel: the thread pool and _process_single_file              *)
(***************************************************************************)
batch_size == 1            \* pipeline.py:259, the literal the loop compares with
ingestion_batch_size == 50 \* settings.py:142, the configured (default) value

Running == {f \in Files : wstate[f] = "running"}
Outstanding == {f \in Files : wstate[f] \in {"submitted", "running", "completed"}}

\* a pool thread takes the oldest queued task when one of the workers is free
WorkerStart(f) ==
  /\ wstate[f] = "submitted"
  /\ \A g \in Files : g < f => wstate[g] # "submitted"
  /\ Cardinality(Running) < workers
  /\ wstate' = [wstate EXCEPT ![f] = "running"]
  /\ UNCHANGED <<files, skip_existing, workers, pcMain, runNo, stats, file_path,
                 enriched, fres, wresult, all_docs_to_add, flushing, counted,
                 startCount>>
  /\ UNCHANGED <<storeVars, retryVars, rtvVars, auxVars>>

\* what _process_single_file(file_path, skip_existing) returns
ProcessResult(f, skip) ==
  IF files[f].fate = "ok"
  THEN [status |-> "success", documents |-> files[f].docs]
  ELSE [status |-> "failed", documents |-> <<>>]

\* variant in which the worker itself adds its chunks to the store
ProcessSingleFileStoring(f) ==
  /\ wstate[f] = "running"
  /\ wstate' = [wstate EXCEPT ![f] = "completed"]
  /\ wresult' = [wresult EXCEPT ![f] = ProcessResult(f, skip_existing)]
  /\ store' = store \cup Ids(files[f].docs)
  /\ flushing' = flushing \cup {ToString(f)}
  /\ UNCHANGED <<files, skip_existing, workers, pcMain, runNo, stats, file_path,
                 enriched, fres, all_docs_to_add, counted, startCount>>
  /\ UNCHANGED <<faults, retryVars, rtvVars, auxVars>>

\* a worker runs load -> chunk -> enrich for its file and returns the result
ProcessSingleFile(f) ==
  /\ wstate[f] = "running"
  /\ wstate' = [wstate EXCEPT ![f] = "completed"]
  /\ wresult' = [wresult EXCEPT ![f] = ProcessResult(f, skip_existing)]
  /\ UNCHANGED <<files, skip_existing, workers, pcMain, runNo, stats, file_path,
                 enriched, fres, all_docs_to_add, flushing, counted, startCount>>
  /\ UNCHANGED <<storeVars, retryVars, rtvVars, auxVars>>

\* pipeline.py:289  the test that decides a flush inside the loop
FlushDue(docs) == Len(docs) >= batch_size

\* one iteration of the as_completed loop, up to the flush it may start
ConsumeResult(f) ==
  /\ pcMain = "par_loop"
  /\ wstate[f] = "completed"
  /\ wstate' = [wstate EXCEPT ![f] = "consumed"]
  /\ file_path' = f
  /\ LET result == wresult[f]
         docs   == IF result.status = "success"
                   THEN all_docs_to_add \o result.documents
                   ELSE all_docs_to_add
     IN /\ all_docs_to_add' = docs
        /\ IF result.status = "success"
           THEN /\ stats' = Bump(stats, "successful")
                /\ counted' = [counted EXCEPT ![f] = @ \cup {"successful"}]
           ELSE IF result.status = "skipped"
           THEN /\ stats' = Bump(stats, "skipped")
                /\ counted' = [counted EXCEPT ![f] = @ \cup {"skipped"}]
           ELSE /\ stats' = Bump(stats, "failed")
                /\ counted' = [counted EXCEPT ![f] = @ \cup {"failed"}]
        /\ IF FlushDue(docs)
           THEN /\ RetryCall(docs)
                /\ flushing' = flushing \cup {Main}
                /\ pcMain' = "par_flush"
                /\ UNCHANGED batch
           ELSE UNCHANGED <<retryVars, flushing, pcMain>>
  /\ UNCHANGED <<files, skip_existing, workers, runNo, enriched, fres, wresult,
                 startCount>>
  /\ UNCHANGED <<storeVars, rtvVars, auxVars>>

\* the flush returned or raised: pipeline.py:292-298 in the loop, 310-313 after it
FlushDone ==
  /\ pcMain \in {"par_flush", "par_final"}
  /\ retry \in {"returned", "raised"}
  /\ IF retry = "returned"
     THEN /\ stats' = [stats EXCEPT !.total_chunks = @ + Len(all_docs_to_add)]
          /\ UNCHANGED counted
     ELSE /\ stats' = Bump(stats, "failed")
          /\ counted' = IF pcMain = "par_flush"
                        THEN [counted EXCEPT ![file_path] = @ \cup {"failed"}]
                        ELSE counted
  /\ all_docs_to_add' = IF pcMain = "par_flush" THEN <<>> ELSE all_docs_to_add
  /\ pcMain' = IF pcMain = "par_flush" THEN "par_loop" ELSE "done"
  /\ retry' = "idle"
  /\ retIds' = <<>>
  /\ flushing' = flushing \ {Main}
  /\ UNCHANGED <<stack, calls, batch>>
  /\ UNCHANGED <<files, skip_existing, workers, runNo, file_path, enriched, fres,
                 wstate, wresult, startCount>>
  /\ UNCHANGED <<storeVars, rtvVars, auxVars>>

\* every future was consumed: flush what remains, then return the statistics
PoolDrained ==
  /\ pcMain = "par_loop"
  /\ Outstanding = {}
  /\ IF all_docs_to_add # <<>>
     THEN /\ RetryCall(all_docs_to_add)
          /\ flushing' = flushing \cup {Main}
          /\ pcMain' = "par_final"
          /\ UNCHANGED batch
     ELSE /\ pcMain' = "done"
          /\ UNCHANGED <<retryVars, flushing>>
  /\ UNCHANGED <<files, skip_existing, workers, runNo, stats, file_path, enriched,
                 fres, wstate, wresult, all_docs_to_add, counted, startCount>>
  /\ UNCHANGED <<storeVars, rtvVars, auxVars>>

(***************************************************************************)
(* Initial states                                                          *)
(***************************************************************************)
StoreInit == store = {} /\ faults = 0

RetryInit ==
  /\ stack = <<>>
  /\ retIds = <<>>
  /\ retry = "idle"
  /\ calls = 0

\* the pipeline when only its retry routine or the retriever is exercised
IngestOff(pc) ==
  /\ files = [f \in Files |-> [fate |-> "no_content", docs |-> <<>>]]
  /\ skip_existing = TRUE
  /\ workers = 1
  /\ pcMain = pc
  /\ runNo = 0
  /\ stats = StatsZero(0)
  /\ file_path = 0
  /\ enriched = <<>>
  /\ fres = [f \in Files |-> "none"]
  /\ wstate = [f \in Files |-> "none"]
  /\ wresult = [f \in Files |-> NoResult]
  /\ all_docs_to_add = <<>>
  /\ flushing = {}
  /\ counted = [f \in Files |-> {}]
  /\ startCount = 0

\* IngestionPipeline.__init__ over a directory of NFiles files
IngestInit ==
  /\ files \in {fs \in [Files -> UNION {FileChoices(f) : f \in Files}] :
                  \A f \in Files : fs[f] \in FileChoices(f)}
  /\ skip_existing \in BOOLEAN
  /\ workers \in 1..MaxWorkers
  /\ pcMain = "idle"
  /\ runNo = 0
  /\ stats = StatsZero(0)
  /\ file_path = 0
  /\ enriched = <<>>
  /\ fres = [f \in Files |-> "none"]
  /\ wstate = [f \in Files |-> "none"]
  /\ wresult = [f \in Files |-> NoResult]
  /\ all_docs_to_add = <<>>
  /\ flushing = {}
  /\ counted = [f \in Files |-> {}]
  /\ startCount = 0

RetrieveOff ==
  /\ recs = <<>>
  /\ similarity_threshold = 0
  /\ thrArg = NoArg
  /\ thrSetting = 0
  /\ rtv = [outcome |-> "none"]

\* no enrich_document or add_documents call made yet
EnrichOff ==
  /\ enrichLog = <<>>
  /\ added = <<>>
  /\ now = 0

ChunkOff ==
  /\ units = <<>>
  /\ chunks = <<>>

\* a result dictionary of ingest_file / reindex_file: its keys and the values
\* of the counting keys (NoArg for a key that is absent)
Result(status, keys, chunks_added, deleted_chunks) ==
  [status |-> status, keys |-> keys, chunks_added |-> chunks_added,
   deleted_chunks |-> deleted_chunks]

NoReindexResult == Result("none", {}, NoArg, NoArg)

ReindexOff ==
  reindex = [file |-> 0, before |-> {}, deleted_count |-> NoArg,
             result |-> NoReindexResult]

AgentOff == agent = [node |-> "off"]

\* _clean_text not called
CleanOff ==
  /\ rawText = <<>>
  /\ cleaned = <<>>

NoAuthResult == [called |-> FALSE]

\* authentication disabled and nobody logged in
SessionOff ==
  /\ auth_enabled = FALSE
  /\ session_state = [attrs |-> {}, authenticated |-> FALSE,
                      authenticated_at |-> <<>>]
  /\ lastActivity = NoArg
  /\ authResult = NoAuthResult

AuxOff == EnrichOff /\ ChunkOff /\ ReindexOff /\ AgentOff /\ CleanOff /\ SessionOff

(***************************************************************************)
(* SpecRetry: _add_documents_with_retry called on a batch of 1..MaxBatch   *)
(* documents with distinct ids and any weights                             *)
(***************************************************************************)
InitRetry ==
  /\ StoreInit
  /\ RetryInit
  /\ batch \in {DocsOf(0, ws) : ws \in SeqsUpTo(Weights, MaxBatch)}
  /\ IngestOff("direct")
  /\ RetrieveOff
  /\ AuxOff

NextRetry == CallRetry \/ RetryStep

SpecRetry == InitRetry /\ [][NextRetry]_vars

(***************************************************************************)
(* Spec: ingest_directory, run and run again over the same directory       *)
(***************************************************************************)
Init ==
  /\ StoreInit
  /\ RetryInit
  /\ batch = <<>>
  /\ IngestInit
  /\ RetrieveOff
  /\ AuxOff

Next ==
  \/ IngestDirectory
  \/ SeqLoad
  \/ SeqFilterStore
  \/ SeqFileDone
  \/ SeqReturn
  \/ \E f \in Files : WorkerStart(f)
  \/ \E f \in Files : ProcessSingleFile(f)
  \/ \E f \in Files : ConsumeResult(f)
  \/ FlushDone
  \/ PoolDrained
  \/ RetryStep

Spec == Init /\ [][Next]_vars

(***************************************************************************)
(* DocumentRetriever.  Similarities and thresholds are exact fractions:    *)
(* distances and thresholds are counted in hundredths.                     *)
(***************************************************************************)
Codes     == {"c1", "c2"}
Distances == {100, 400}             \* 1.0 and 4.0: similarity 1/2 and 1/5
ThrArgs     == {NoArg, 0, 50}        \* constructor argument
ThrSettings == {0, 35}              \* settings.similarity_threshold
default_top_k == 5                  \* settings.top_k
ScanLimit == 10000                  \* retriever.py:88

\* occurrences of c1 and c2 in a chunk's content
OccChoices == {<<0, 0>>, <<1, 0>>, <<1, 2>>}

RecChoices(i) ==
  {[id |-> i, occ |-> [c \in Codes |-> IF c = "c1" THEN o[1] ELSE o[2]],
    distance |-> d, doc_type |-> IF i % 2 = 1 THEN "pdf" ELSE "excel"] :
     o \in OccChoices, d \in Distances}

\* list(set(codes)): the distinct codes in some iteration order
CodeLists == {<<>>, <<"c1">>, <<"c1", "c2">>, <<"c2", "c1">>}

Min(a, b) == IF a <= b THEN a ELSE b
Prefix(s, n) == SubSeq(s, 1, Min(n, Len(s)))

\* stable sort of a sequence of records on their integer field key, ascending
RECURSIVE InsertByKey(_, _)
InsertByKey(x, s) ==
  IF s = <<>> THEN <<x>>
  ELSE IF x.key < Head(s).key THEN <<x>> \o s
  ELSE <<Head(s)>> \o InsertByKey(x, Tail(s))

RECURSIVE SortByKey(_)
SortByKey(s) ==
  IF s = <<>> THEN <<>>
  ELSE InsertByKey(s[Len(s)], SortByKey(SubSeq(s, 1, Len(s) - 1)))

\* retriever.py:33  self.similarity_threshold = arg or settings value
InitThreshold(arg, setting) == IF arg = NoArg \/ arg = 0 THEN setting ELSE arg

\* retriever.py:137  top_k = top_k or self.top_k
EffectiveK(k) == IF k = NoArg \/ k = 0 THEN default_top_k ELSE k

\* retriever.py:159  similarity = 1 / (1 + distance), as a fraction <<num, den>>
Similarity(d) == <<100, 100 + d>>

\* retriever.py:161  similarity >= self.similarity_threshold
\* (num/den >= t/100, for a denominator of either sign)
MeetsThreshold(sim, t) ==
  IF sim[2] > 0 THEN sim[1] * 100 >= t * sim[2]
                ELSE sim[1] * 100 <= t * sim[2]

\* retriever.py:159  1 / (1 + distance) raises ZeroDivisionError at distance -1
DivisionByZero(results) ==
  \E i \in 1..Len(results) : 100 + results[i].distance = 0

\* the first code of the list found in the record, or None (retriever.py:96-109)
RECURSIVE FirstCode(_, _)
FirstCode(r, codes) ==
  IF codes = <<>> THEN None
  ELSE IF r.occ[Head(codes)] > 0 THEN Head(codes)
  ELSE FirstCode(r, Tail(codes))

ExactEntry(r, n) ==
  [id |-> r.id, match_type |-> "exact", distance |-> 0, sim |-> <<1, 1>>,
   match_count |-> n, doc_type |-> r.doc_type, key |-> 0 - n]

\* every scanned chunk that contains a code, in scan order (retriever.py:92-109)
ExactMatches(codes) ==
  LET scanned == Prefix(recs, ScanLimit)
      hits    == SelectSeq(scanned, LAMBDA r : FirstCode(r, codes) # None)
  IN  [i \in 1..Len(hits) |-> ExactEntry(hits[i], hits[i].occ[FirstCode(hits[i], codes)])]

\* _exact_search: scanFails is collection.get raising
ExactSearchIgnoringFailure(codes, top_k, scanFails) ==
  IF codes = <<>> THEN <<>>
  ELSE Prefix(SortByKey(ExactMatches(codes)), top_k)

ExactSearch(codes, top_k, scanFails) ==
  IF codes = <<>> \/ scanFails THEN <<>>
  ELSE Prefix(SortByKey(ExactMatches(codes)), top_k)

QueryEntry(r) ==
  [id |-> r.id, match_type |-> None, distance |-> r.distance, sim |-> <<0, 1>>,
   match_count |-> 0, doc_type |-> r.doc_type, key |-> r.distance]

\* vector_store.py:163-165  query logs the error and re-raises it
OnQueryErrorEmpty == "empty"
OnQueryError == "raise"

\* VectorStore.query: the n nearest records that satisfy the where filter
Query(n, filters) ==
  LET cands == SelectSeq(recs, LAMBDA r : filters = None \/ r.doc_type = filters)
  IN  Prefix(SortByKey([i \in 1..Len(cands) |-> QueryEntry(cands[i])]), n)

\* retriever.py:155-164
FilterSemantic(results) ==
  LET tagged == [i \in 1..Len(results) |->
                   [results[i] EXCEPT !.sim = Similarity(results[i].distance),
                                      !.match_type = "semantic"]]
  IN  SelectSeq(tagged, LAMBDA e : MeetsThreshold(e.sim, similarity_threshold))

\* retriever.py:166-180  append the entries whose id was not seen yet
RECURSIVE AppendUnseen(_, _)
AppendUnseen(combined, docs) ==
  IF docs = <<>> THEN combined
  ELSE IF Head(docs).id \in {combined[i].id : i \in 1..Len(combined)}
       THEN AppendUnseen(combined, Tail(docs))
       ELSE AppendUnseen(Append(combined, Head(docs)), Tail(docs))

CombineSemanticFirst(exact, semantic) == AppendUnseen(AppendUnseen(<<>>, semantic), exact)
Combine(exact, semantic) == AppendUnseen(AppendUnseen(<<>>, exact), semantic)

\* retriever.py:183
TruncateKeepingOneMore(combined, top_k) == Prefix(combined, top_k + 1)
Truncate(combined, top_k) == Prefix(combined, top_k)

KArgs   == {NoArg} \cup (1..MaxK)
Filters == {None, "pdf"}

Retrieve ==
  /\ pcMain = "query"
  /\ rtv.outcome = "none"
  /\ \E kArg \in KArgs, codes \in CodeLists, filters \in Filters,
        scanFails \in BOOLEAN, queryFails \in BOOLEAN :
       /\ scanFails => codes # <<>>
       /\ LET top_k    == EffectiveK(kArg)
              exact    == ExactSearch(codes, top_k, scanFails)
              raises   == queryFails /\ OnQueryError = "raise"
              results  == IF queryFails THEN <<>> ELSE Query(top_k, filters)
              call     == [queryFailed |-> queryFails, top_k |-> top_k,
                           codes |-> codes, filters |-> filters,
                           scanFailed |-> scanFails, exact |-> exact]
          IN  rtv' = IF raises \/ DivisionByZero(results)
                     THEN [outcome |-> "raised"] @@ call
                     ELSE LET semantic == FilterSemantic(results)
                              combined == Combine(exact, semantic)
                          IN  [outcome |-> "returned", semantic |-> semantic,
                               results |-> Truncate(combined, top_k)] @@ call
  /\ UNCHANGED <<recs, similarity_threshold, thrArg, thrSetting>>
  /\ UNCHANGED <<storeVars, retryVars, ingVars, auxVars>>

(***************************************************************************)
(* SpecRetrieve: a retriever constructed over an index of NRecs records,   *)
(* whose code occurrences and distances are those of the query asked       *)
(***************************************************************************)
InitRetrieve ==
  /\ recs \in {rs \in [1..NRecs -> UNION {RecChoices(i) : i \in 1..NRecs}] :
                 \A i \in 1..NRecs : rs[i] \in RecChoices(i)}
  /\ thrArg \in ThrArgs
  /\ thrSetting \in ThrSettings
  /\ similarity_threshold = InitThreshold(thrArg, thrSetting)
  /\ rtv = [outcome |-> "none"]
  /\ store = {recs[i].id : i \in 1..NRecs}
  /\ faults = 0
  /\ RetryInit
  /\ batch = <<>>
  /\ IngestOff("query")
  /\ AuxOff

NextRetrieve == Retrieve

SpecRetrieve == InitRetrieve /\ [][NextRetrieve]_vars

(***************************************************************************)
(* SpecDistances: the same retriever over an index whose distance function *)
(* is not restricted to non-negative values (inner-product space, rounding *)
(* of cosine distances): -2.0, -1.0, -0.5, 0.0 and 1.0                     *)
(***************************************************************************)
AnyDistances == {0 - 200, 0 - 100, 0 - 50, 0, 100}

AnyRecChoices(i) ==
  {[id |-> i, occ |-> [c \in Codes |-> IF c = "c1" /\ i = 1 THEN 1 ELSE 0],
    distance |-> d, doc_type |-> IF i % 2 = 1 THEN "pdf" ELSE "excel"] :
     d \in AnyDistances}

InitDistances ==
  /\ recs \in {rs \in [1..NRecs -> UNION {AnyRecChoices(i) : i \in 1..NRecs}] :
                 \A i \in 1..NRecs : rs[i] \in AnyRecChoices(i)}
  /\ thrArg \in ThrArgs
  /\ thrSetting \in ThrSettings
  /\ similarity_threshold = InitThreshold(thrArg, thrSetting)
  /\ rtv = [outcome |-> "none"]
  /\ store = {recs[i].id : i \in 1..NRecs}
  /\ faults = 0
  /\ RetryInit
  /\ batch = <<>>
  /\ IngestOff("query")
  /\ AuxOff

SpecDistances == InitDistances /\ [][NextRetrieve]_vars

(***************************************************************************)
(* Identifiers.  MetadataEnricher._generate_doc_id hashes the              *)
(* concatenation of the content, the source and the decimal forms of       *)
(* page_number and chunk_index; VectorStore.add_documents falls back to a  *)
(* hash of the content.  Strings are sequences of characters; SHA-256 is   *)
(* taken as collision-free, so a digest stands for its input string.       *)
(***************************************************************************)
Contents     == {<<"a">>, <<"a", "1">>}
Sources      == {<<"s">>, <<"t">>}
PageNumbers  == {NoArg, 1, 11}          \* NoArg: the key is absent
ChunkIndexes == {NoArg, 2, 12}
OtherMeta    == {"pdf", "docx"}         \* metadata the id does not read
NoDocId      == <<>>                    \* no doc_id key, or a falsy one
Calls        == {1, 2}

\* str(n) for a natural number
RECURSIVE Str(_)
Str(n) == IF n < 10 THEN <<ToString(n)>>
          ELSE Str(n \div 10) \o <<ToString(n % 10)>>

\* Document (base_loader.py): content and metadata; source is always set
Document(content, metadata) == [content |-> content, metadata |-> metadata]

RawDocuments ==
  {Document(c, [source |-> s, page_number |-> p, chunk_index |-> k,
                doc_type |-> o, doc_id |-> NoDocId, ingestion_timestamp |-> NoArg,
                char_count |-> NoArg]) :
     c \in Contents, s \in Sources, p \in PageNumbers, k \in ChunkIndexes,
     o \in OtherMeta}

\* hashlib.sha256(x.encode()).hexdigest()[:16]
Sha256Hex16(x) == <<"sha256", x>>

\* metadata_enricher.py:94-100
HashInput(content, metadata) ==
  content
    \o metadata.source
    \o (IF metadata.page_number # NoArg THEN Str(metadata.page_number) ELSE <<>>)
    \o (IF metadata.chunk_index # NoArg THEN Str(metadata.chunk_index) ELSE <<>>)

GenerateDocIdWithType(content, metadata) ==
  Sha256Hex16(HashInput(content, metadata) \o <<metadata.doc_type>>)

\* MetadataEnricher._generate_doc_id
GenerateDocId(content, metadata) == Sha256Hex16(HashInput(content, metadata))

\* MetadataEnricher.enrich_document at time t
EnrichDocument(document, t) ==
  Document(document.content,
           [document.metadata EXCEPT
              !.doc_id = GenerateDocId(document.content, document.metadata),
              !.ingestion_timestamp = t,
              !.char_count = Len(document.content)])

CallEnrichDocument ==
  /\ pcMain = "ids"
  /\ Len(enrichLog) + Len(added) + 1 \in Calls
  /\ \E d \in RawDocuments :
       enrichLog' = Append(enrichLog,
                           [document |-> d, time |-> now,
                            result |-> EnrichDocument(d, now)])
  /\ now' = now + 1
  /\ UNCHANGED <<added, chunkVars, reindex, agent, cleanVars, sessVars>>
  /\ UNCHANGED <<storeVars, retryVars, ingVars, rtvVars>>

\* vector_store.py:100-105  the id add_documents uses for a document
AddId(doc) ==
  IF doc.metadata.doc_id # NoDocId THEN doc.metadata.doc_id
  ELSE Sha256Hex16(doc.content)

\* the documents add_documents is called with: raw ones and enriched ones
AddInputs == RawDocuments \cup {EnrichDocument(d, 0) : d \in RawDocuments}

\* collection.add refuses a list that holds an id twice
ErrDuplicate == "duplicate_ids"

\* VectorStore.add_documents on a list of documents; an exception of the
\* collection is logged and raised again (vector_store.py:118-120)
CallAddDocuments ==
  /\ pcMain = "ids"
  /\ \E n \in 1..2 :
       /\ Len(enrichLog) + Len(added) + n \in Calls
       /\ \E docs \in [1..n -> AddInputs] :
          LET ids == [i \in 1..n |-> AddId(docs[i])]
              outcomes == IF \E i, j \in 1..n : i # j /\ ids[i] = ids[j]
                          THEN {ErrDuplicate}
                          ELSE {"ok"} \cup (IF faults < MaxFaults THEN {ErrOther} ELSE {})
          IN \E out \in outcomes :
               /\ store' = IF out = "ok" THEN store \cup {ids[i] : i \in 1..n} ELSE store
               /\ added' = IF out = "ok"
                            THEN added \o [i \in 1..n |-> [document |-> docs[i], id |-> ids[i]]]
                            ELSE added
               /\ faults' = IF out = ErrOther THEN faults + 1 ELSE faults
  /\ UNCHANGED <<enrichLog, now, chunkVars, reindex, agent, cleanVars, sessVars>>
  /\ UNCHANGED <<retryVars, ingVars, rtvVars>>

InitIds ==
  /\ StoreInit
  /\ RetryInit
  /\ batch = <<>>
  /\ IngestOff("ids")
  /\ RetrieveOff
  /\ AuxOff

NextIds == CallEnrichDocument \/ CallAddDocuments

SpecIds == InitIds /\ [][NextIds]_vars

(***************************************************************************)
(* The chunking stage: _chunk_documents applies TableChunker and then      *)
(* SemanticChunker.  A loaded unit carries the number of its page as       *)
(* page_number, which its chunks inherit.                                  *)
(***************************************************************************)
Chars == {"a", "b"}
UnitContents == UNION {[1..n -> Chars] : n \in 1..MaxLen}

Unit(content, page, has_tables) ==
  Document(content, [source |-> <<"s">>, page_number |-> page,
                     has_tables |-> has_tables, chunk_index |-> NoArg,
                     total_chunks |-> NoArg, chunk_size |-> NoArg])

UnitLists ==
  UNION {{us \in [1..n -> {Unit(c, i, t) : c \in UnitContents, i \in 1..n,
                                          t \in BOOLEAN}] :
            \A i \in 1..n : us[i].metadata.page_number = i} : n \in 1..MaxUnits}

RECURSIVE Flatten(_)
Flatten(lists) == IF lists = <<>> THEN <<>> ELSE Head(lists) \o Flatten(Tail(lists))

\* TableChunker._chunk_with_tables (table_chunker.py:58-69)
ChunkWithTables(document) == <<document>>

\* TableChunker.chunk_documents, preserve_tables being the default True
TableChunkDocuments(documents) ==
  Flatten([i \in 1..Len(documents) |->
             IF documents[i].metadata.has_tables
             THEN ChunkWithTables(documents[i])
             ELSE <<documents[i]>>])

\* text_splitter.split_text: the text cut into consecutive pieces of at most
\* chunk_size characters (the text has no separator; overlap not modelled)
RECURSIVE SplitText(_)
SplitText(text) ==
  IF Len(text) <= ChunkSize THEN <<text>>
  ELSE <<SubSeq(text, 1, ChunkSize)>> \o SplitText(SubSeq(text, ChunkSize + 1, Len(text)))

\* SemanticChunker.chunk_document (semantic_chunker.py:76-105)
ChunkDocument(document) ==
  IF Len(document.content) <= ChunkSize
  THEN <<document>>
  ELSE LET texts == SplitText(document.content)
       IN  [i \in 1..Len(texts) |->
              Document(texts[i], [document.metadata EXCEPT
                                    !.chunk_index = i - 1,
                                    !.total_chunks = Len(texts),
                                    !.chunk_size = Len(texts[i])])]

\* SemanticChunker.chunk_documents
SemanticChunkDocuments(documents) ==
  Flatten([i \in 1..Len(documents) |-> ChunkDocument(documents[i])])

\* IngestionPipeline._chunk_documents
ChunkDocuments ==
  /\ pcMain = "chunk"
  /\ chunks' = SemanticChunkDocuments(TableChunkDocuments(units))
  /\ pcMain' = "chunked"
  /\ UNCHANGED <<files, skip_existing, workers, runNo, stats, file_path,
                 enriched, fres, wstate, wresult, all_docs_to_add, flushing,
                 counted, startCount>>
  /\ UNCHANGED <<units, enrVars, reindex, agent, cleanVars, sessVars>>
  /\ UNCHANGED <<storeVars, retryVars, rtvVars>>

InitChunk ==
  /\ StoreInit
  /\ RetryInit
  /\ batch = <<>>
  /\ IngestOff("chunk")
  /\ RetrieveOff
  /\ EnrichOff
  /\ units \in UnitLists
  /\ chunks = <<>>
  /\ ReindexOff
  /\ AgentOff
  /\ CleanOff
  /\ SessionOff

NextChunk == ChunkDocuments

SpecChunk == InitChunk /\ [][NextChunk]_vars

(***************************************************************************)
(* reindex_file: delete_by_source, then ingest_file, then the result with  *)
(* deleted_chunks added.  A record <<f, i>> has the path of file f as its  *)
(* source metadata (base_loader.py:82).                                    *)
(***************************************************************************)
BySource(f) == {id \in store : id[1] = f}

\* records that earlier ingestions of the files may have left in the store
OldRecords == {<<f, i>> : f \in Files, i \in 1..2}

\* vector_store.delete_by_source; an exception of the collection is raised
\* again and leaves reindex_file
ReindexDelete ==
  /\ pcMain = "reindex"
  /\ \E fails \in BOOLEAN :
       /\ fails => faults < MaxFaults
       /\ IF fails
          THEN /\ faults' = faults + 1
               /\ pcMain' = "rx_raised"
               /\ UNCHANGED <<store, reindex>>
          ELSE /\ store' = store \ BySource(reindex.file)
               /\ reindex' = [reindex EXCEPT
                                !.deleted_count = Cardinality(BySource(reindex.file))]
               /\ pcMain' = "rx_load"
               /\ UNCHANGED faults
  /\ UNCHANGED <<files, skip_existing, workers, runNo, stats, file_path,
                 enriched, fres, wstate, wresult, all_docs_to_add, flushing,
                 counted, startCount>>
  /\ UNCHANGED <<retryVars, rtvVars, enrVars, chunkVars, agent, cleanVars, sessVars>>

\* result["deleted_chunks"] = deleted_count (pipeline.py:502)
WithDeleted(result, deleted_count) ==
  [result EXCEPT !.keys = @ \cup {"deleted_chunks"},
                 !.deleted_chunks = deleted_count]

\* ingest_file steps 1-3 inside reindex_file
ReindexLoad ==
  /\ pcMain = "rx_load"
  /\ LET f == reindex.file IN
     IF files[f].fate = "ok"
     THEN /\ enriched' = files[f].docs
          /\ pcMain' = "rx_enriched"
          /\ UNCHANGED reindex
     ELSE IF files[f].fate \in LoadFailures
     THEN \* {"status": "failed", "error": "No content loaded"}
          /\ reindex' = [reindex EXCEPT !.result =
                           WithDeleted(Result("failed", {"status", "error"}, NoArg, NoArg),
                                       reindex.deleted_count)]
          /\ pcMain' = "rx_done"
          /\ UNCHANGED enriched
     ELSE \* an exception of the chunking stage leaves reindex_file
          /\ pcMain' = "rx_raised"
          /\ UNCHANGED <<enriched, reindex>>
  /\ UNCHANGED <<files, skip_existing, workers, runNo, stats, file_path,
                 fres, wstate, wresult, all_docs_to_add, flushing,
                 counted, startCount>>
  /\ UNCHANGED <<storeVars, retryVars, rtvVars, enrVars, chunkVars, agent, cleanVars, sessVars>>

\* ingest_file steps 4-5 inside reindex_file
ReindexFilterStore ==
  /\ pcMain = "rx_enriched"
  /\ LET present == Ids(enriched) \cap store
     IN \E missed \in SUBSET present :
        /\ Cardinality(missed) <= MaxFaults - faults
        /\ ~skip_existing => missed = {}
        /\ faults' = faults + Cardinality(missed)
        /\ LET docs == IF skip_existing THEN FilterExisting(enriched, missed)
                       ELSE enriched
           IN IF skip_existing /\ docs = <<>>
              THEN /\ reindex' = [reindex EXCEPT !.result =
                                    WithDeleted(Result("skipped", {"status", "reason"},
                                                       NoArg, NoArg),
                                                reindex.deleted_count)]
                   /\ pcMain' = "rx_done"
                   /\ enriched' = <<>>
                   /\ UNCHANGED <<retryVars, flushing>>
              ELSE /\ RetryCall(docs)
                   /\ flushing' = flushing \cup {Main}
                   /\ pcMain' = "rx_store"
                   /\ enriched' = docs
                   /\ UNCHANGED <<reindex, batch>>
  /\ UNCHANGED <<store, files, skip_existing, workers, runNo, stats, file_path,
                 fres, wstate, wresult, all_docs_to_add, counted, startCount>>
  /\ UNCHANGED <<rtvVars, enrVars, chunkVars, agent, cleanVars, sessVars>>

\* ingest_file after the store call, and the return of reindex_file
ReindexReturn ==
  /\ pcMain = "rx_store"
  /\ retry \in {"returned", "raised"}
  /\ reindex' = [reindex EXCEPT !.result =
                   WithDeleted(IF retry = "returned"
                               THEN Result("success",
                                           {"status", "chunks_added", "doc_ids"},
                                           Len(retIds), NoArg)
                               ELSE Result("failed", {"status", "error"}, NoArg, NoArg),
                               reindex.deleted_count)]
  /\ retry' = "idle"
  /\ retIds' = <<>>
  /\ flushing' = flushing \ {Main}
  /\ enriched' = <<>>
  /\ pcMain' = "rx_done"
  /\ UNCHANGED <<stack, calls, batch>>
  /\ UNCHANGED <<files, skip_existing, workers, runNo, stats, file_path,
                 fres, wstate, wresult, all_docs_to_add, counted, startCount>>
  /\ UNCHANGED <<storeVars, rtvVars, enrVars, chunkVars, agent, cleanVars, sessVars>>

\* reindex_file(f) called on a pipeline whose store holds old records
InitReindex ==
  /\ store \in SUBSET OldRecords
  /\ faults = 0
  /\ RetryInit
  /\ batch = <<>>
  /\ \E f \in Files :
       /\ files \in {fs \in [Files -> UNION {FileChoices(g) : g \in Files}] :
                       /\ fs[f] \in FileChoices(f)
                       /\ \A g \in Files \ {f} :
                            fs[g] = [fate |-> "no_content", docs |-> <<>>]}
       /\ reindex = [file |-> f, before |-> {id \in store : id[1] = f},
                     deleted_count |-> NoArg, result |-> NoReindexResult]
  /\ skip_existing \in BOOLEAN
  /\ workers = 1
  /\ pcMain = "reindex"
  /\ runNo = 0
  /\ stats = StatsZero(0)
  /\ file_path = 0
  /\ enriched = <<>>
  /\ fres = [f \in Files |-> "none"]
  /\ wstate = [f \in Files |-> "none"]
  /\ wresult = [f \in Files |-> NoResult]
  /\ all_docs_to_add = <<>>
  /\ flushing = {}
  /\ counted = [f \in Files |-> {}]
  /\ startCount = 0
  /\ RetrieveOff
  /\ EnrichOff
  /\ ChunkOff
  /\ AgentOff
  /\ CleanOff
  /\ SessionOff

NextReindex ==
  \/ ReindexDelete
  \/ ReindexLoad
  \/ ReindexFilterStore
  \/ ReindexReturn
  \/ RetryStep

SpecReindex == InitReindex /\ [][NextReindex]_vars

(***************************************************************************)
(* IntelligentAgent: the graph analyze_intent -> route_to_tool ->          *)
(* execute_tool -> generate_response -> END, run by graph.invoke inside    *)
(* run.  An answer of the language model is a sequence of tokens: words,   *)
(* in lower or upper case, and white space.                                *)
(***************************************************************************)
valid_intents ==
  {"count", "list", "recent", "categories", "factual", "procedural", "search"}

Tok(word, upper) == [word |-> word, upper |-> upper]
WS == Tok(" ", FALSE)

\* answers to the intent prompt
IntentReplies ==
  {<<Tok(w, u)>> : w \in valid_intents \cup {"unsure"}, u \in BOOLEAN}
    \cup {<<WS, Tok("count", TRUE), WS>>,
          <<Tok("intent:", FALSE), WS, Tok("list", FALSE)>>,
          <<>>}

\* str.strip()
RECURSIVE StripLeft(_)
StripLeft(s) == IF s # <<>> /\ Head(s) = WS THEN StripLeft(Tail(s)) ELSE s

RECURSIVE StripRight(_)
StripRight(s) ==
  IF s # <<>> /\ s[Len(s)] = WS THEN StripRight(SubSeq(s, 1, Len(s) - 1)) ELSE s

Strip(s) == StripRight(StripLeft(s))

\* str.lower()
Lower(s) == [i \in 1..Len(s) |-> Tok(s[i].word, FALSE)]

\* intelligent_agent.py:146-152  the intent kept for an answer
IntentOf(reply) ==
  LET intent == Lower(Strip(reply))
  IN  IF Len(intent) = 1 /\ intent[1].word \in valid_intents
      THEN intent[1].word
      ELSE "factual"

\* the node analyze_intent; fails: llm.invoke raised
AnalyzeIntent ==
  /\ pcMain = "agent"
  /\ agent.node = "analyze_intent"
  /\ \E fails \in BOOLEAN, reply \in IntentReplies :
       /\ fails => reply = <<>>
       /\ agent' = [agent EXCEPT
                      !.node = "route_to_tool",
                      !.reply = reply,
                      !.llmFailed = fails,
                      !.intent = IF fails THEN "factual" ELSE IntentOf(reply),
                      !.trace = Append(@, "analyze_intent")]
  /\ UNCHANGED <<enrVars, chunkVars, reindex, cleanVars, sessVars>>
  /\ UNCHANGED <<storeVars, retryVars, ingVars, rtvVars>>

\* what the parameter extraction gives: a JSON object (bare or in a code
\* fence), text that json.loads rejects, a failed llm.invoke, or valid JSON
\* that is not an object (a list, a string, a number, null)
ParamReplies == {"object", "fenced_object", "invalid_json", "llm_error", "not_an_object"}

\* intelligent_agent.py:189-203  params after the try block
ParamsOf(p) == IF p \in {"invalid_json", "llm_error"} THEN "defaults"
               ELSE IF p = "not_an_object" THEN "not_an_object"
               ELSE "object"

\* intelligent_agent.py:206-243
ToolOf(intent) ==
  IF intent = "count" THEN "metadata_query"
  ELSE IF intent = "list" THEN "document_list"
  ELSE IF intent = "recent" THEN "metadata_query"
  ELSE IF intent = "categories" THEN "metadata_query"
  ELSE "semantic_search"

\* the branches that call params.get (all but categories)
ReadsParams(intent) == intent # "categories"

\* the node route_to_tool.  params.get on a value that is not a dictionary
\* raises outside the try block: graph.invoke raises and run returns its
\* error answer (intelligent_agent.py:110-117)
RouteToTool ==
  /\ pcMain = "agent"
  /\ agent.node = "route_to_tool"
  /\ \E p \in ParamReplies :
       IF ParamsOf(p) = "not_an_object" /\ ReadsParams(agent.intent)
       THEN agent' = [agent EXCEPT
                       !.node = "returned",
                       !.params = p,
                       !.trace = Append(@, "route_to_tool"),
                       !.returned = [intent |-> "error", tool_used |-> "none"]]
       ELSE agent' = [agent EXCEPT
                       !.node = "execute_tool",
                       !.params = p,
                       !.tool_name = ToolOf(agent.intent),
                       !.trace = Append(@, "route_to_tool")]
  /\ UNCHANGED <<enrVars, chunkVars, reindex, cleanVars, sessVars>>
  /\ UNCHANGED <<storeVars, retryVars, ingVars, rtvVars>>

\* the node execute_tool; an exception of the tool is kept in the state
ExecuteTool ==
  /\ pcMain = "agent"
  /\ agent.node = "execute_tool"
  /\ \E toolFails \in BOOLEAN :
       agent' = [agent EXCEPT
                  !.node = "generate_response",
                  !.tool_result = IF toolFails THEN "Error"
                                  ELSE IF agent.tool_name \in
                                            {"metadata_query", "semantic_search",
                                             "document_list"}
                                  THEN agent.tool_name
                                  ELSE "Unknown tool",
                  !.error = toolFails,
                  !.trace = Append(@, "execute_tool")]
  /\ UNCHANGED <<enrVars, chunkVars, reindex, cleanVars, sessVars>>
  /\ UNCHANGED <<storeVars, retryVars, ingVars, rtvVars>>

\* the node generate_response, the END edge and the return of run
GenerateResponse ==
  /\ pcMain = "agent"
  /\ agent.node = "generate_response"
  /\ agent' = [agent EXCEPT
                 !.node = "returned",
                 !.final_answer = agent.tool_result,
                 !.trace = Append(@, "generate_response"),
                 !.returned = [intent |-> agent.intent, tool_used |-> agent.tool_name]]
  /\ UNCHANGED <<enrVars, chunkVars, reindex, cleanVars, sessVars>>
  /\ UNCHANGED <<storeVars, retryVars, ingVars, rtvVars>>

\* run: initial_state and the entry point of the graph
InitAgent ==
  /\ StoreInit
  /\ RetryInit
  /\ batch = <<>>
  /\ IngestOff("agent")
  /\ RetrieveOff
  /\ EnrichOff
  /\ ChunkOff
  /\ ReindexOff
  /\ CleanOff
  /\ SessionOff
  /\ agent = [node |-> "analyze_intent", reply |-> <<>>, llmFailed |-> FALSE,
              params |-> "", intent |-> "", tool_name |-> "", tool_result |-> "",
              final_answer |-> "", error |-> FALSE, trace |-> <<>>,
              returned |-> [intent |-> "", tool_used |-> ""]]

NextAgent == AnalyzeIntent \/ RouteToTool \/ ExecuteTool \/ GenerateResponse

SpecAgent == InitAgent /\ [][NextAgent]_vars

(***************************************************************************)
(* SpecClean: BaseDocumentLoader._clean_text (base_loader.py:90-108) on    *)
(* strings over a letter, two whitespace characters and the null byte      *)
(***************************************************************************)
NUL == "\\x00"
Whitespace == {" ", "\\n"}
TextChars == {"a"} \cup Whitespace \cup {NUL}
Texts == UNION {[1..n -> TextChars] : n \in 0..MaxText}

\* str.split(): the maximal runs of characters that are not whitespace
RECURSIVE Split(_)
Split(s) ==
  IF s = <<>> THEN <<>>
  ELSE IF Head(s) \in Whitespace THEN Split(Tail(s))
  ELSE LET rest == Split(Tail(s))
       IN  IF Len(s) > 1 /\ s[2] \notin Whitespace
           THEN <<<<Head(s)>> \o Head(rest)>> \o Tail(rest)
           ELSE <<<<Head(s)>>>> \o rest

\* " ".join(words)
RECURSIVE Join(_)
Join(words) ==
  IF words = <<>> THEN <<>>
  ELSE IF Len(words) = 1 THEN Head(words)
  ELSE Head(words) \o <<" ">> \o Join(Tail(words))

\* text.replace("\x00", "")
RemoveNul(s) == SelectSeq(s, LAMBDA c : c # NUL)

\* str.strip()
RECURSIVE LStrip(_)
LStrip(s) == IF s # <<>> /\ Head(s) \in Whitespace THEN LStrip(Tail(s)) ELSE s

RECURSIVE RStrip(_)
RStrip(s) ==
  IF s # <<>> /\ s[Len(s)] \in Whitespace
  THEN RStrip(SubSeq(s, 1, Len(s) - 1)) ELSE s

StrStrip(s) == RStrip(LStrip(s))

\* base_loader.py:99-108
CleanText(s) ==
  IF s = <<>> THEN <<>>
  ELSE StrStrip(RemoveNul(Join(Split(s))))

CallCleanText ==
  /\ pcMain = "clean"
  /\ cleaned' = CleanText(rawText)
  /\ pcMain' = "cleaned"
  /\ UNCHANGED <<files, skip_existing, workers, runNo, stats, file_path,
                 enriched, fres, wstate, wresult, all_docs_to_add, flushing,
                 counted, startCount>>
  /\ UNCHANGED <<storeVars, retryVars, rtvVars, enrVars, chunkVars, reindex,
                 agent, rawText, sessVars>>

InitClean ==
  /\ StoreInit
  /\ RetryInit
  /\ batch = <<>>
  /\ IngestOff("clean")
  /\ RetrieveOff
  /\ EnrichOff
  /\ ChunkOff
  /\ ReindexOff
  /\ AgentOff
  /\ SessionOff
  /\ rawText \in Texts
  /\ cleaned = <<>>

NextClean == CallCleanText

SpecClean == InitClean /\ [][NextClean]_vars

(***************************************************************************)
(* SpecSession: SessionManager (auth.py:288-355) as the pages of           *)
(* ui/components/login.py use it.  Time is counted in minutes.             *)
(***************************************************************************)
Times == 0..MaxTime

\* datetime.isoformat() and datetime.fromisoformat()
Isoformat(t) == <<"iso", t>>
FromIsoformat(str) == str[2]

HasAttr(ss, name) == name \in ss.attrs

\* SessionManager.is_authenticated (auth.py:291-318) at time t
IsAuthenticated(ss, t) ==
  IF ~auth_enabled THEN TRUE
  ELSE IF ~HasAttr(ss, "authenticated") \/ ~ss.authenticated THEN FALSE
  ELSE IF /\ HasAttr(ss, "authenticated_at")
          /\ t - FromIsoformat(ss.authenticated_at) > session_timeout_minutes
       THEN FALSE
       ELSE TRUE

\* SessionManager.login (auth.py:320-337); authenticate's result carries
\* authenticated_at (auth.py:131)
Login(ss, auth_result) ==
  [attrs |-> ss.attrs \cup {"authenticated", "authenticated_at"},
   authenticated |-> TRUE,
   authenticated_at |-> auth_result.authenticated_at]

\* SessionManager.logout (auth.py:339-355)
Logout(ss) ==
  [attrs |-> ss.attrs \cup {"authenticated", "authenticated_at"},
   authenticated |-> FALSE,
   authenticated_at |-> <<>>]

\* what an is_authenticated call saw and answered: the flag of the session,
\* the time since the user's last activity and since the login
CallRecord(ss, t) ==
  [called |-> TRUE,
   value |-> IsAuthenticated(ss, t),
   authenticated |-> HasAttr(ss, "authenticated") /\ ss.authenticated,
   idle |-> IF lastActivity = NoArg THEN 0 ELSE t - lastActivity,
   age |-> IF HasAttr(ss, "authenticated_at") /\ ss.authenticated_at # <<>>
           THEN t - FromIsoformat(ss.authenticated_at) ELSE 0]

SessionUnchanged ==
  /\ UNCHANGED <<files, skip_existing, workers, pcMain, runNo, stats, file_path,
                 enriched, fres, wstate, wresult, all_docs_to_add, flushing,
                 counted, startCount>>
  /\ UNCHANGED <<storeVars, retryVars, rtvVars, enrichLog, added, chunkVars,
                 reindex, agent, cleanVars, auth_enabled>>

\* a minute passes
Tick ==
  /\ pcMain = "session"
  /\ now < MaxTime
  /\ now' = now + 1
  /\ UNCHANGED <<session_state, lastActivity, authResult>>
  /\ SessionUnchanged

\* require_authentication (login.py:172-192) on a request of the user that
\* is neither a login nor a logout
RequireAuthentication ==
  /\ pcMain = "session"
  /\ authResult' = CallRecord(session_state, now)
  /\ lastActivity' = IF IsAuthenticated(session_state, now) THEN now
                      ELSE lastActivity
  /\ UNCHANGED <<session_state, now>>
  /\ SessionUnchanged

\* the login form submitted (login.py:61-90): the page is rendered because
\* is_authenticated answered False
SubmitLogin ==
  /\ pcMain = "session"
  /\ ~IsAuthenticated(session_state, now)
  /\ authResult' = CallRecord(session_state, now)
  /\ \E success \in BOOLEAN :
       IF success
       THEN /\ session_state' =
                 Login(session_state, [authenticated_at |-> Isoformat(now)])
            /\ lastActivity' = now
       ELSE UNCHANGED <<session_state, lastActivity>>
  /\ UNCHANGED now
  /\ SessionUnchanged

\* the logout button pressed (login.py:137-169): it is rendered when
\* is_authenticated answered True
ClickLogout ==
  /\ pcMain = "session"
  /\ IsAuthenticated(session_state, now)
  /\ authResult' = CallRecord(session_state, now)
  /\ session_state' = Logout(session_state)
  /\ lastActivity' = now
  /\ UNCHANGED now
  /\ SessionUnchanged

InitSession ==
  /\ StoreInit
  /\ RetryInit
  /\ batch = <<>>
  /\ IngestOff("session")
  /\ RetrieveOff
  /\ EnrichOff
  /\ ChunkOff
  /\ ReindexOff
  /\ AgentOff
  /\ CleanOff
  /\ auth_enabled \in BOOLEAN
  /\ session_state = [attrs |-> {}, authenticated |-> FALSE,
                      authenticated_at |-> <<>>]
  /\ lastActivity = NoArg
  /\ authResult = NoAuthResult

NextSession == Tick \/ RequireAuthentication \/ SubmitLogin \/ ClickLogout

SpecSession == InitSession /\ [][NextSession]_vars

(***************************************************************************)
(* Properties of _add_documents_with_retry                                 *)
(***************************************************************************)
\* the store accepts every document of the batch alone and rejects, with the
\* overflow error, every flush of more than one of them
OverflowPolicy(docs) ==
  /\ \A i \in 1..Len(docs) : docs[i].w <= TokenLimit
  /\ \A i, j \in 1..Len(docs) : i < j => docs[i].w + docs[j].w > TokenLimit

\* store calls still needed, at most, for the batches on the stack
RECURSIVE PendingCalls(_)
PendingCalls(st) ==
  IF st = <<>> THEN 0 ELSE (2 * Len(Head(st)) - 1) + PendingCalls(Tail(st))

\* C1: on a batch of N >= 1 documents of which the store rejects every flush
\* of more than one with the overflow error and accepts every flush of one,
\* _add_documents_with_retry never raises, is never stuck, makes at most
\* 2N - 1 store calls (each step uses up one of them), and returns with
\* exactly the N documents in the store, each id returned once in order.
C1_BisectionTerminates ==
  (pcMain = "direct" /\ OverflowPolicy(batch) /\ faults = 0) =>
     /\ retry # "raised"
     /\ retry = "idle" => ENABLED CallRetry
     /\ retry = "running" =>
          /\ ENABLED RetryStep
          /\ calls + PendingCalls(stack) <= 2 * Len(batch) - 1
     /\ retry = "returned" =>
          /\ store = Ids(batch)
          /\ Cardinality(store) = Len(batch)
          /\ retIds = IdSeq(batch)
          /\ calls <= 2 * Len(batch) - 1

\* C1 witness: a batch of MaxBatch documents was bisected down to single documents
C1_Witness ==
  /\ pcMain = "direct"
  /\ OverflowPolicy(batch)
  /\ faults = 0
  /\ Len(batch) = MaxBatch
  /\ retry = "returned"
  /\ calls = 2 * MaxBatch - 1
  /\ Cardinality(store) = MaxBatch

\* the documents of a flushed batch that the store accepts alone
Acceptable(docs) == {docs[i].id : i \in {j \in 1..Len(docs) : docs[j].w <= TokenLimit}}

\* C2: when a flush attempt ends (no other store failure having occurred),
\* every document of the flushed batch that the store accepts alone is in the
\* store, also when the batch holds a document that overflows alone; and the
\* ingestion run is not stopped by it.
C2_OnlyOversizedDocumentFails ==
  /\ (pcMain \in {"seq_store", "par_flush", "par_final"}
        /\ retry \in {"returned", "raised"} /\ faults = 0)
       => Acceptable(IF pcMain = "seq_store" THEN enriched ELSE all_docs_to_add)
            \subseteq store
  /\ (pcMain \in {"seq_store", "par_flush", "par_final"}) => ENABLED Next

(***************************************************************************)
(* Properties of ingest_directory                                          *)
(***************************************************************************)
\* C3: when ingest_directory has run twice over the same files with
\* skip_existing = True (and the store never failed), the second run reports
\* successful = 0 and the store holds as many records as when that run began,
\* in sequential and in parallel mode.
C3_SkipExistingIdempotent ==
  (runNo = 2 /\ pcMain = "done" /\ skip_existing /\ faults = 0) =>
     /\ stats.successful = 0
     /\ Cardinality(store) = startCount

\* the same, for a second run made in sequential mode
C3_SequentialSecondRun ==
  (runNo = 2 /\ pcMain = "done" /\ skip_existing /\ faults = 0
     /\ \A f \in Files : wstate[f] = "none") =>
     /\ stats.successful = 0
     /\ Cardinality(store) = startCount

InRun == pcMain \notin {"idle", "done"}

\* C4: a run is never stuck or aborted, whatever fails for a file (unsupported
\* extension, loader exception, no content, exception while chunking or
\* enriching, store failure): when it returns, every file that failed to load,
\* chunk or enrich is counted as failed and every file of the list was
\* processed and counted; and the file whose store call raised is counted as
\* failed when the coordinating thread handles the exception.
C4_RunNeverAborts ==
  /\ [](/\ InRun => ENABLED Next
        /\ pcMain = "done" =>
             /\ stats.total_files = NFiles
             /\ \A f \in Files :
                  /\ counted[f] # {}
                  /\ files[f].fate # "ok" => counted[f] = {"failed"})
  /\ [][(retry = "raised" /\ retry' = "idle") =>
          (InRun' /\ "failed" \in counted'[file_path])]_vars

\* C4 witness: a run returned in which one file failed, by a store failure or
\* before it, and a later file was ingested
C4_Witness ==
  /\ pcMain = "done"
  /\ \E f, g \in Files :
       /\ f < g
       /\ "failed" \in counted[f]
       /\ counted[g] = {"successful"}
       /\ Ids(files[g].docs) \subseteq store

FlushStates == {"seq_store", "par_flush", "par_final"}

\* C5: in parallel ingestion no worker calls the store: at any time the only
\* thread inside a flush is the coordinating thread, so at most one flush is
\* in progress, and the store changes only in a step of that flush.
C5_OnlyCoordinatorFlushes ==
  /\ [](flushing \subseteq {Main} /\ Cardinality(flushing) <= 1)
  /\ [][store' # store =>
          (flushing = {Main} /\ pcMain \in FlushStates /\ retry = "running"
             /\ wstate' = wstate /\ wresult' = wresult)]_vars

\* C5 witness: the coordinating thread is flushing while a worker is still
\* processing its file, and the flush has stored something
C5_Witness ==
  /\ pcMain = "par_flush"
  /\ flushing = {Main}
  /\ Running # {}
  /\ store # {}

\* C6: in the loop of _ingest_parallel no flush is issued while the batch
\* holds fewer than ingestion_batch_size documents and workers are still
\* outstanding.
C6_FlushAtConfiguredBatchSize ==
  (pcMain = "par_flush" /\ \E f \in Files : wstate[f] \in {"submitted", "running"})
     => Len(all_docs_to_add) >= ingestion_batch_size

\* C7: with skip_existing, ingest_file submits to the store no chunk whose
\* doc_id the store holds, returns skipped exactly when every enriched chunk
\* of the file is in the store, and then leaves the store unchanged.
C7_SkipExistingFilter ==
  [][(pcMain = "seq_enriched" /\ skip_existing /\ pcMain' # "seq_enriched") =>
       /\ pcMain' = "seq_store" => Ids(enriched') \cap store = {}
       /\ (fres'[file_path] = "skipped") <=> (Ids(enriched) \subseteq store)
       /\ fres'[file_path] = "skipped" => store' = store]_vars

\* the same, for the steps in which no existence check raised
C7_WithoutCheckFailure ==
  [][(pcMain = "seq_enriched" /\ skip_existing /\ pcMain' # "seq_enriched"
        /\ faults' = faults) =>
       /\ pcMain' = "seq_store" => Ids(enriched') \cap store = {}
       /\ (fres'[file_path] = "skipped") <=> (Ids(enriched) \subseteq store)
       /\ fres'[file_path] = "skipped" => store' = store]_vars

(***************************************************************************)
(* Properties of DocumentRetriever.retrieve                                *)
(***************************************************************************)
Returned == pcMain = "query" /\ rtv.outcome = "returned"

IdsOf(entries) == {entries[i].id : i \in 1..Len(entries)}
IdList(entries) == [i \in 1..Len(entries) |-> entries[i].id]
OfType(entries, t) == SelectSeq(entries, LAMBDA e : e.match_type = t)

\* a is b with some elements left out
RECURSIVE IsSubseq(_, _)
IsSubseq(a, b) ==
  IF a = <<>> THEN TRUE
  ELSE IF b = <<>> THEN FALSE
  ELSE IF Head(a) = Head(b) THEN IsSubseq(Tail(a), Tail(b))
  ELSE IsSubseq(a, Tail(b))

\* the ranking of the exact scan: more occurrences first, scan order among equals
ExactRanked(R) ==
  \A i, j \in 1..Len(R) :
    i < j => \/ R[i].match_count > R[j].match_count
             \/ (R[i].match_count = R[j].match_count /\ R[i].id < R[j].id)

\* the order of the index: nearer first, index order among equals
IndexOrdered(R) ==
  \A i, j \in 1..Len(R) :
    i < j => \/ R[i].distance < R[j].distance
             \/ (R[i].distance = R[j].distance /\ R[i].id < R[j].id)

\* C8: in the list retrieve returns no semantic result comes before an exact
\* one, whatever the distances; the exact results are in the order of the
\* exact search (by occurrences, then scan order) and are its first entries,
\* the semantic results are in the order the index returned them.
C8_ExactMatchPrecedence ==
  Returned =>
    LET R  == rtv.results
        ex == OfType(R, "exact")
        se == OfType(R, "semantic")
    IN  /\ \A i, j \in 1..Len(R) :
             i < j => ~(R[i].match_type = "semantic" /\ R[j].match_type = "exact")
        /\ R = ex \o se
        /\ ExactRanked(ex)
        /\ ex = Prefix(rtv.exact, Len(ex))
        /\ IndexOrdered(se)
        /\ IsSubseq(IdList(se), IdList(rtv.semantic))

\* C8 witness: an exact match is followed by a semantic result whose record is
\* nearer to the query than the exact match's own record
C8_Witness ==
  /\ Returned
  /\ \E i, j \in 1..Len(rtv.results) :
       /\ i < j
       /\ rtv.results[i].match_type = "exact"
       /\ rtv.results[j].match_type = "semantic"
       /\ rtv.results[j].distance < recs[rtv.results[i].id].distance

\* the records the exact scan finds for the codes, before any truncation
FoundExact(codes) == {r \in {recs[i] : i \in 1..Len(recs)} : FirstCode(r, codes) # None}

\* C9: for every limit k >= 1 the list retrieve returns has at most k entries
\* and no record id twice; a record that the exact scan found never appears as
\* a semantic entry, so one found by both searches appears once, as exact.
C9_AtMostKNoDuplicates ==
  Returned =>
    LET R == rtv.results IN
      /\ rtv.top_k >= 1
      /\ Len(R) <= rtv.top_k
      /\ \A i, j \in 1..Len(R) : i # j => R[i].id # R[j].id
      /\ \A i \in 1..Len(R) :
           (~rtv.scanFailed /\ R[i].id \in {r.id : r \in FoundExact(rtv.codes)})
             => R[i].match_type = "exact"
      /\ \A i \in 1..Len(R) :
           R[i].match_type = "exact" => R[i].id \notin IdsOf(OfType(R, "semantic"))

\* C9 witness: the list was cut to k entries and holds, as an exact entry, a
\* record that the semantic search kept too
C9_Witness ==
  /\ Returned
  /\ Len(rtv.exact) + Len(rtv.semantic) > rtv.top_k
  /\ Len(rtv.results) = rtv.top_k
  /\ \E i \in 1..Len(rtv.results) :
       /\ rtv.results[i].match_type = "exact"
       /\ rtv.results[i].id \in IdsOf(rtv.semantic)

\* the threshold the retriever was configured with: the constructor argument
\* when one is given, the setting otherwise
ConfiguredThreshold == IF thrArg # NoArg THEN thrArg ELSE thrSetting

\* C10: for every configured threshold t in [0, 1], t = 0 included, a candidate
\* the index returns with distance d >= 0 is kept as a semantic result if and
\* only if 1/(1+d) >= t, and every kept candidate is tagged semantic.
C10_ThresholdFilter ==
  Returned =>
    LET cands == Query(rtv.top_k, rtv.filters) IN
      /\ \A i \in 1..Len(cands) :
           (cands[i].id \in IdsOf(rtv.semantic))
             <=> (100 * 100 >= ConfiguredThreshold * (100 + cands[i].distance))
      /\ \A i \in 1..Len(rtv.semantic) : rtv.semantic[i].match_type = "semantic"

\* the same, with the threshold the constructor stored
C10_StoredThreshold ==
  Returned =>
    LET cands == Query(rtv.top_k, rtv.filters) IN
      /\ \A i \in 1..Len(cands) :
           (cands[i].id \in IdsOf(rtv.semantic))
             <=> (100 * 100 >= similarity_threshold * (100 + cands[i].distance))
      /\ \A i \in 1..Len(rtv.semantic) : rtv.semantic[i].match_type = "semantic"

\* C11: every entry of the list retrieve returns has a similarity score in
\* [0, 1], for every distance the index can report, negative ones included
\* (the similarity 1/(1+d) is clamped to [0, 1]).
C11_SimilarityWithinUnitInterval ==
  Returned =>
    \A i \in 1..Len(rtv.results) :
      LET sim == rtv.results[i].sim IN
        /\ sim[2] > 0
        /\ 0 <= sim[1]
        /\ sim[1] <= sim[2]

\* the same, for the candidates whose distance is not negative
C11_NonNegativeDistances ==
  Returned =>
    \A i \in 1..Len(rtv.results) :
      LET sim == rtv.results[i].sim IN
        rtv.results[i].distance >= 0 => (sim[2] > 0 /\ 0 <= sim[1] /\ sim[1] <= sim[2])

\* C12: when the similarity query against the index fails, the retrieve call
\* raises; it never returns a list, whether or not the exact scan had found
\* matches.
C12_QueryFailureRaises ==
  (pcMain = "query" /\ rtv.outcome # "none" /\ rtv.queryFailed)
    => rtv.outcome = "raised"

\* C12 witness: the query failed after the exact scan had found matches, and
\* the call raised
C12_Witness ==
  /\ pcMain = "query"
  /\ rtv.outcome = "raised"
  /\ rtv.queryFailed
  /\ rtv.exact # <<>>

\* C13: when reading the stored chunks for the exact scan fails and the
\* similarity query succeeds, retrieve returns (it does not raise), and the
\* list is exactly the thresholded semantic results cut to k entries, with
\* no exact entry.
C13_ExactScanFailureNotFatal ==
  (pcMain = "query" /\ rtv.outcome # "none" /\ rtv.scanFailed) =>
    /\ rtv.outcome = "raised" => rtv.queryFailed
    /\ rtv.outcome = "returned" =>
         /\ rtv.results =
              Prefix(FilterSemantic(Query(rtv.top_k, rtv.filters)), rtv.top_k)
         /\ OfType(rtv.results, "exact") = <<>>
         /\ rtv.exact = <<>>

\* C13 witness: the scan failed for codes that stored chunks contain, and the
\* call returned semantic results
C13_Witness ==
  /\ Returned
  /\ rtv.scanFailed
  /\ FoundExact(rtv.codes) # {}
  /\ rtv.results # <<>>

(***************************************************************************)
(* Properties of the identifiers                                           *)
(***************************************************************************)
SamePosition(m1, m2) ==
  /\ m1.source = m2.source
  /\ m1.page_number = m2.page_number
  /\ m1.chunk_index = m2.chunk_index

\* C14: any two enrich_document calls on documents with the same content and
\* the same source, page_number and chunk_index give the same doc_id, whatever
\* the other metadata, the times of the calls and their order.
C14_DocIdDeterministic ==
  \A i, j \in 1..Len(enrichLog) :
    (/\ enrichLog[i].document.content = enrichLog[j].document.content
     /\ SamePosition(enrichLog[i].document.metadata, enrichLog[j].document.metadata))
      => enrichLog[i].result.metadata.doc_id = enrichLog[j].result.metadata.doc_id

\* C14 witness: two calls at different times on documents that agree on
\* content and position and differ in other metadata
C14_Witness ==
  \E i, j \in 1..Len(enrichLog) :
    /\ enrichLog[i].time # enrichLog[j].time
    /\ enrichLog[i].document.content = enrichLog[j].document.content
    /\ SamePosition(enrichLog[i].document.metadata, enrichLog[j].document.metadata)
    /\ enrichLog[i].document.metadata.doc_type # enrichLog[j].document.metadata.doc_type
    /\ enrichLog[i].document.metadata.page_number # NoArg
    /\ enrichLog[i].result.metadata.doc_id = enrichLog[j].result.metadata.doc_id

\* C15: two documents that differ in content or in any of source,
\* page_number, chunk_index get different doc_id values from enrich_document
\* (the hash being collision-free on its input string).
C15_DocIdInjective ==
  \A i, j \in 1..Len(enrichLog) :
    (\/ enrichLog[i].document.content # enrichLog[j].document.content
     \/ ~SamePosition(enrichLog[i].document.metadata, enrichLog[j].document.metadata))
      => enrichLog[i].result.metadata.doc_id # enrichLog[j].result.metadata.doc_id

\* the same, for documents that differ in content or source only
C15_ContentOrSourceChange ==
  \A i, j \in 1..Len(enrichLog) :
    (/\ enrichLog[i].document.metadata.page_number = enrichLog[j].document.metadata.page_number
     /\ enrichLog[i].document.metadata.chunk_index = enrichLog[j].document.metadata.chunk_index
     /\ \/ enrichLog[i].document.content # enrichLog[j].document.content
        \/ enrichLog[i].document.metadata.source # enrichLog[j].document.metadata.source)
      => enrichLog[i].result.metadata.doc_id # enrichLog[j].result.metadata.doc_id

\* C19: for documents that carry no doc_id, the id add_documents assigns is a
\* function of content and position: the same document gets the same id
\* again, and two documents with equal content at different positions
\* (source, page or chunk index) get different ids, in one call or several.
C19_FallbackIdFromContentAndPosition ==
  \A i, j \in 1..Len(added) :
    (/\ added[i].document.metadata.doc_id = NoDocId
     /\ added[j].document.metadata.doc_id = NoDocId) =>
      /\ added[i].document = added[j].document => added[i].id = added[j].id
      /\ (/\ added[i].document.content = added[j].document.content
          /\ ~SamePosition(added[i].document.metadata, added[j].document.metadata))
           => added[i].id # added[j].id

\* the part of it that holds: the same document gets the same id again, and
\* a document that carries a doc_id is stored under it
C19_SameDocumentSameId ==
  \A i, j \in 1..Len(added) :
    /\ added[i].document = added[j].document => added[i].id = added[j].id
    /\ added[i].document.metadata.doc_id # NoDocId
         => added[i].id = added[i].document.metadata.doc_id

(***************************************************************************)
(* Properties of the chunking stage                                        *)
(***************************************************************************)
Chunked == pcMain = "chunked"

\* the chunks made from the unit of page p, in the order of the list
ChunksOf(p) == SelectSeq(chunks, LAMBDA c : c.metadata.page_number = p)

\* C17: a unit flagged has_tables is never split, whatever its length: the
\* final chunk list holds exactly one chunk for it, with the unit's content.
C17_TableUnitsNeverSplit ==
  Chunked =>
    \A p \in 1..Len(units) :
      units[p].metadata.has_tables =>
        /\ Len(ChunksOf(p)) = 1
        /\ ChunksOf(p)[1].content = units[p].content

\* what holds of it: a table unit within the chunk size is kept whole, and
\* every unit within the chunk size yields one chunk
C17_SmallUnitsKeptWhole ==
  Chunked =>
    \A p \in 1..Len(units) :
      Len(units[p].content) <= ChunkSize =>
        /\ Len(ChunksOf(p)) = 1
        /\ ChunksOf(p)[1].content = units[p].content

\* C18: every chunk carries its parent's metadata plus chunk_index and
\* total_chunks; the chunks of one parent are numbered 0 .. total_chunks-1
\* in order and total_chunks is their number, for unsplit units and table
\* units too.
C18_ChunkMetadata ==
  Chunked =>
    \A p \in 1..Len(units) :
      LET cs == ChunksOf(p) IN
        \A i \in 1..Len(cs) :
          /\ cs[i].metadata.source = units[p].metadata.source
          /\ cs[i].metadata.has_tables = units[p].metadata.has_tables
          /\ cs[i].metadata.chunk_index = i - 1
          /\ cs[i].metadata.total_chunks = Len(cs)

\* the same, for the units that were split
C18_SplitChunksNumbered ==
  Chunked =>
    \A p \in 1..Len(units) :
      LET cs == ChunksOf(p) IN
        \A i \in 1..Len(cs) :
          /\ cs[i].metadata.source = units[p].metadata.source
          /\ cs[i].metadata.has_tables = units[p].metadata.has_tables
          /\ Len(cs) > 1 => /\ cs[i].metadata.chunk_index = i - 1
                            /\ cs[i].metadata.total_chunks = Len(cs)

(***************************************************************************)
(* Properties of reindex_file                                              *)
(***************************************************************************)
\* C16: reindex_file removes every record whose source is the file before it
\* adds any new one, and the result it returns reports the number of records
\* deleted and the number of chunks newly added, whatever the outcome of the
\* re-ingestion.
C16_ReindexDeletesThenReports ==
  /\ pcMain = "reindex" => BySource(reindex.file) = reindex.before
  /\ pcMain \in {"rx_load", "rx_enriched"} => BySource(reindex.file) = {}
  /\ pcMain = "rx_done" =>
       /\ "deleted_chunks" \in reindex.result.keys
       /\ reindex.result.deleted_chunks = Cardinality(reindex.before)
       /\ "chunks_added" \in reindex.result.keys
       /\ reindex.result.chunks_added = Cardinality(BySource(reindex.file))

\* what holds of it: the deletion comes first, deleted_chunks is reported in
\* every outcome, and chunks_added is reported, exactly, on success
C16_DeleteFirstAndSuccessReport ==
  /\ pcMain = "reindex" => BySource(reindex.file) = reindex.before
  /\ pcMain \in {"rx_load", "rx_enriched"} => BySource(reindex.file) = {}
  /\ pcMain = "rx_done" =>
       /\ "deleted_chunks" \in reindex.result.keys
       /\ reindex.result.deleted_chunks = Cardinality(reindex.before)
       /\ reindex.result.status = "success" =>
            /\ "chunks_added" \in reindex.result.keys
            /\ reindex.result.chunks_added = Cardinality(BySource(reindex.file))

(***************************************************************************)
(* Properties of IntelligentAgent.run                                      *)
(***************************************************************************)
AgentReturned == pcMain = "agent" /\ agent.node = "returned"

\* the tool the routing table gives for an intent
RoutingTable(intent) ==
  IF intent \in {"count", "recent", "categories"} THEN "metadata_query"
  ELSE IF intent = "list" THEN "document_list"
  ELSE IF intent \in {"factual", "procedural", "search"} THEN "semantic_search"
  ELSE "none"

\* the answer of the model names one of the seven intents
NamesIntent(reply) ==
  \E w \in valid_intents : Lower(Strip(reply)) = <<Tok(w, FALSE)>>

\* C20: for every query the tool run reports is the one the routing table
\* gives for the detected intent; an answer outside the seven names, or a
\* failed detection, counts as factual; the four nodes run in order, once
\* each.
C20_ToolDeterminedByIntent ==
  AgentReturned =>
    /\ agent.intent \in valid_intents
    /\ (agent.llmFailed \/ ~NamesIntent(agent.reply)) => agent.intent = "factual"
    /\ (~agent.llmFailed /\ NamesIntent(agent.reply))
         => Lower(Strip(agent.reply)) = <<Tok(agent.intent, FALSE)>>
    /\ agent.returned.intent = agent.intent
    /\ agent.returned.tool_used = RoutingTable(agent.intent)
    /\ agent.trace = <<"analyze_intent", "route_to_tool", "execute_tool",
                       "generate_response">>

\* the same, for the runs in which the extracted parameters are a dictionary
\* (a JSON object, or the defaults taken after a failed extraction)
C20_WhenParamsAreADictionary ==
  (AgentReturned /\ ParamsOf(agent.params) # "not_an_object") =>
    /\ agent.intent \in valid_intents
    /\ (agent.llmFailed \/ ~NamesIntent(agent.reply)) => agent.intent = "factual"
    /\ (~agent.llmFailed /\ NamesIntent(agent.reply))
         => Lower(Strip(agent.reply)) = <<Tok(agent.intent, FALSE)>>
    /\ agent.returned.intent = agent.intent
    /\ agent.returned.tool_used = RoutingTable(agent.intent)
    /\ agent.trace = <<"analyze_intent", "route_to_tool", "execute_tool",
                       "generate_response">>

(***************************************************************************)
(* Properties of the store error handling                                  *)
(***************************************************************************)
\* the batch handed to the flush in progress
FlushedBatch == IF pcMain = "seq_store" THEN enriched ELSE all_docs_to_add

\* C22: a store call that fails with an error that is not of the overflow
\* class ends the invocation: it raises with no further store call for the
\* batch; the run counts the failure and goes on; and one invocation on a
\* batch of N documents makes at most 2N - 1 store calls.
C22_NonOverflowErrorNotRetried ==
  [][/\ (retry = "running" /\ calls' = calls + 1 /\ faults' = faults + 1)
          => (retry' = "raised" /\ stack' = <<>>)
     /\ (pcMain \in FlushStates /\ calls' = calls + 1)
          => calls' <= 2 * Len(FlushedBatch) - 1
     /\ (pcMain \in FlushStates /\ retry = "raised" /\ retry' = "idle")
          => (stats'.failed = stats.failed + 1 /\ pcMain' \in {"seq_loop", "par_loop", "done"})]_vars

\* what holds of it: the number of store calls is bounded, and a raised
\* flush is counted and the run goes on
C22_CallsBoundedFailureCounted ==
  [][/\ (pcMain \in FlushStates /\ calls' = calls + 1)
          => calls' <= 2 * Len(FlushedBatch) - 1
     /\ (pcMain \in FlushStates /\ retry = "raised" /\ retry' = "idle")
          => (stats'.failed = stats.failed + 1 /\ pcMain' \in {"seq_loop", "par_loop", "done"})]_vars

(***************************************************************************)
(* Properties of the statistics of a run                                   *)
(***************************************************************************)
RunReturned == pcMain = "done"

\* the run was made in sequential mode (no future was ever submitted)
SequentialRun == \A f \in Files : wstate[f] = "none"

\* C25: at the return of every run, in either mode and whatever failed,
\* successful + failed + skipped = total_files and every file of the list is
\* counted in exactly one of the three.
C25_StatisticsConservation ==
  RunReturned =>
    /\ stats.successful + stats.failed + stats.skipped = stats.total_files
    /\ \A f \in Files : Cardinality(counted[f]) = 1

\* the same, for the runs made in sequential mode
C25_SequentialConservation ==
  (RunReturned /\ SequentialRun) =>
    /\ stats.successful + stats.failed + stats.skipped = stats.total_files
    /\ \A f \in Files : Cardinality(counted[f]) = 1

\* C26: at the return of a run, every enriched chunk of every file counted
\* as successful is in the store under its doc_id, also when a flush failed
\* during the run.
C26_SuccessfulMeansStored ==
  RunReturned =>
    \A f \in Files :
      "successful" \in counted[f] => Ids(files[f].docs) \subseteq store

\* the same, for the runs made in sequential mode
C26_SequentialSuccessStored ==
  (RunReturned /\ SequentialRun) =>
    \A f \in Files :
      "successful" \in counted[f] => Ids(files[f].docs) \subseteq store

\* C27: at the return of a run, total_chunks is the number of records the
\* run added to the store, also after a bisected flush that stored one half
\* and failed on the other, and when submitted chunks were already stored.
C27_TotalChunksExact ==
  RunReturned => stats.total_chunks = Cardinality(store) - startCount

\* the same, for a first run over an empty store in which no store call
\* failed (no chunk overflows alone, no other error)
C27_FirstRunWithoutFailure ==
  (RunReturned /\ runNo = 1 /\ faults = 0
     /\ \A f \in Files : \A i \in 1..Len(files[f].docs) :
          files[f].docs[i].w <= TokenLimit)
    => stats.total_chunks = Cardinality(store) - startCount

(***************************************************************************)
(* Properties of retrieve: filters and the order of the extracted codes    *)
(***************************************************************************)
\* C28: when retrieve is called with metadata filters F, every result it
\* returns, exact or semantic, has metadata that satisfies F.
C28_FiltersBindEveryResult ==
  (Returned /\ rtv.filters # None) =>
    \A i \in 1..Len(rtv.results) : rtv.results[i].doc_type = rtv.filters

\* the same, for the semantic results
C28_FiltersBindSemanticResults ==
  (Returned /\ rtv.filters # None) =>
    \A i \in 1..Len(rtv.results) :
      rtv.results[i].match_type = "semantic" => rtv.results[i].doc_type = rtv.filters

\* the list retrieve returns for this call when the set of extracted codes
\* is iterated in the order of the list codes
ResultsForCodeOrder(codes) ==
  Truncate(Combine(ExactSearch(codes, rtv.top_k, rtv.scanFailed), rtv.semantic),
           rtv.top_k)

CodeSet(codes) == {codes[i] : i \in 1..Len(codes)}

\* C29: for the same query, k, filters, store contents and index candidates,
\* the list retrieve returns (entries, order, match_count of each exact
\* entry) is the same for every iteration order of the set of extracted
\* codes, also when a chunk contains several of the codes.
C29_CodeOrderIndependent ==
  Returned =>
    \A other \in CodeLists :
      CodeSet(other) = CodeSet(rtv.codes) => ResultsForCodeOrder(other) = rtv.results

\* the same, when no stored chunk contains more than one of the codes
C29_OneCodePerChunk ==
  (Returned /\ \A i \in 1..Len(recs) :
                 Cardinality({c \in CodeSet(rtv.codes) : recs[i].occ[c] > 0}) <= 1) =>
    \A other \in CodeLists :
      CodeSet(other) = CodeSet(rtv.codes) => ResultsForCodeOrder(other) = rtv.results

(***************************************************************************)
(* Properties of ingest_file and of reindex_file on failure                *)
(***************************************************************************)
Outcomes == {"success", "skipped", "failed"}

\* C21: every ingest_file call goes through load, chunking, enrichment and
\* (with skip_existing) filtering before any add to the store, and returns
\* exactly one of success, skipped, failed: an error at any stage (load,
\* chunk, enrich, store) gives failed, never an exception to the caller.
C21_PerFileStateMachine ==
  [][/\ (SequentialRun /\ store' # store) => (pcMain = "seq_store" /\ enriched # <<>>)
     /\ pcMain' = "seq_store" => pcMain \in {"seq_enriched", "seq_store"}
     /\ pcMain' = "seq_enriched" => pcMain = "seq_loop"
     /\ \A f \in Files : fres'[f] # fres[f] =>
          (fres'[f] = "none" \/ fres'[f] \in Outcomes)]_vars

\* the same, for files on which chunking and enrichment do not raise
C21_LoadAndStoreErrorsReturnFailed ==
  [][/\ (SequentialRun /\ store' # store) => (pcMain = "seq_store" /\ enriched # <<>>)
     /\ pcMain' = "seq_store" => pcMain \in {"seq_enriched", "seq_store"}
     /\ pcMain' = "seq_enriched" => pcMain = "seq_loop"
     /\ \A f \in Files : (fres'[f] # fres[f] /\ files[f].fate # "chunk_error") =>
          (fres'[f] = "none" \/ fres'[f] \in Outcomes)]_vars

\* C30: when the re-ingestion step of reindex_file does not end in success
\* (load failure, no content, store failure), the records the store held for
\* the file before the call are still in the store afterwards.
C30_ReindexKeepsDataOnFailure ==
  (\/ pcMain = "rx_raised"
   \/ (pcMain = "rx_done" /\ reindex.result.status # "success"))
    => reindex.before \subseteq store

\* what holds of it: a failed deletion leaves the records of the file, and
\* records of other sources are never removed
C30_OnlyOwnSourceDeleted ==
  /\ []((pcMain = "rx_raised" /\ reindex.deleted_count = NoArg)
          => reindex.before \subseteq store)
  /\ [][\A id \in store : id[1] # reindex.file => id \in store']_vars

(***************************************************************************)
(* Properties of _clean_text                                               *)
(***************************************************************************)
NoNul(s) == \A i \in 1..Len(s) : s[i] # NUL
NoOuterWhitespace(s) ==
  s # <<>> => (Head(s) \notin Whitespace /\ s[Len(s)] \notin Whitespace)
NoWhitespaceRun(s) ==
  \A i \in 1..(Len(s) - 1) : ~(s[i] \in Whitespace /\ s[i + 1] \in Whitespace)

\* C23: the output of _clean_text has no null byte, no leading or trailing
\* whitespace and no run of two or more whitespace characters, and
\* _clean_text applied to its own output returns it unchanged.
C23_CleanTextPostcondition ==
  pcMain = "cleaned" =>
    /\ NoNul(cleaned)
    /\ NoOuterWhitespace(cleaned)
    /\ NoWhitespaceRun(cleaned)
    /\ CleanText(cleaned) = cleaned

\* what holds of it: never a null byte, never whitespace at the ends, the only
\* whitespace left is the space; all of C23 for a text without null bytes
C23_HoldsWithoutNullBytes ==
  pcMain = "cleaned" =>
    /\ NoNul(cleaned)
    /\ NoOuterWhitespace(cleaned)
    /\ \A i \in 1..Len(cleaned) : cleaned[i] \in Whitespace => cleaned[i] = " "
    /\ NoNul(rawText) => (NoWhitespaceRun(cleaned) /\ CleanText(cleaned) = cleaned)

(***************************************************************************)
(* Properties of the session                                               *)
(***************************************************************************)
\* C24: with authentication enabled, is_authenticated answers True for a
\* logged-in session exactly while no more than the timeout has passed since
\* the user's last activity, and False from a logout to the next login.
C24_ExpiresAfterInactivity ==
  (auth_enabled /\ authResult.called) =>
    authResult.value =
      (authResult.authenticated /\ authResult.idle <= session_timeout_minutes)

\* what holds of it: the timeout counts from the login, and a session that
\* was logged out or never logged in is not authenticated
C24_ExpiresAfterLogin ==
  /\ (auth_enabled /\ authResult.called) =>
       authResult.value =
         (authResult.authenticated /\ authResult.age <= session_timeout_minutes)
  /\ (auth_enabled /\ ~session_state.authenticated) =>
       ~IsAuthenticated(session_state, now)

====
